---- MODULE Spec2Model ----
(***************************************************************************)
(* SprintTap server (src/server.py): one room of the in-memory room        *)
(* registry, the websocket handler tasks that serve it (ws_room), the      *)
(* deferred round-end tasks (end_round_after) and finalize_round.          *)
(*                                                                         *)
(* The server runs on one asyncio event loop.  A task runs without         *)
(* interruption from one await to the next, so every action below is the   *)
(* code between two suspension points.  The suspension points are          *)
(* receive_text (line 60), the send_text calls of a broadcast (line 36)    *)
(* and asyncio.sleep (line 127).  A broadcast over an empty snapshot       *)
(* awaits nothing, so the code that follows it runs in the same action.    *)
(* The sends of one broadcast read and write no room state, so they are    *)
(* gathered into one step: other tasks run between the snapshot (line 31)  *)
(* and that step, which is every order of room reads and writes the        *)
(* separate sends allow.                                                   *)
(*                                                                         *)
(* A task record holds the task's position (pc), the snapshot and message  *)
(* of the broadcast it is suspended in (todo, msg), and the locals the     *)
(* claims read.  seen is a history field: room["start_time"] as            *)
(* finalize_round found it.                                                *)
(*                                                                         *)
(* Time is counted in whole seconds and observed every TickStep seconds;   *)
(* dictionaries are sequences of entries in insertion order, as Python     *)
(* dictionaries are.                                                       *)
(***************************************************************************)
EXTENDS Integers, Sequences, FiniteSets, TLC

\* ---------------------------------------------------------------- bounds
MaxConns == 3
MaxStarts == 2
MainStarts == 1
MaxTime == 22
TickStep == 11
MaxStamps == 2

\* ------------------------------------------------------ program constants
Lead == 5
Duration == 15
Buffer == 2
None == -1

\* ----------------------------------------------------------- input sets
Names == <<"alice", "bob", "carol">>
Counts == {0, 2}
Offsets == {0, 3}
RelStamps == {0 - 1, 0, Duration, Duration + 1}
QueryTypes == {"timesync", "join", "other"}

Conns == 1..MaxConns
\* the connections the full environment opens; the last one is kept for the
\* three-connection environments below
MainConns == 1..(MaxConns - 1)
Slots == 1..MaxStarts

VARIABLES
    clients,        \* room["clients"]: sequence of [user, ws]
    results,        \* room["results"]: sequence of [user, reported, validated, offset]
    start_time,     \* room["start_time"]: None or a server instant
    last_ranking,   \* room["last_ranking"]
    conn,           \* the handler task of every websocket connection
    timers,         \* the end_round_after tasks
    clock,          \* now()
    finCount,       \* history: round_end broadcasts begun since the last request_start
    last,           \* history: what the step just taken received and sent
    members,        \* history: usernames in clients at some time since the last request_start
    accepted        \* history: results stored since the last request_start and not yet
                    \* ranked, of users whose handler has not ended

room_vars == <<clients, results, start_time, last_ranking>>
vars == <<clients, results, start_time, last_ranking, conn, timers, clock, finCount, last, members, accepted>>

\* ------------------------------------------------------ dictionary helpers
Has(d, u) == \E i \in DOMAIN d : d[i].user = u

IndexOf(d, u) == CHOOSE i \in DOMAIN d : d[i].user = u

Get(d, u) == d[IndexOf(d, u)]

\* d[e.user] = e
Put(d, e) ==
    IF Has(d, e.user) THEN [d EXCEPT ![IndexOf(d, e.user)] = e] ELSE Append(d, e)

PopNothing(d, u) == d

\* d.pop(u, None)
Pop(d, u) == SelectSeq(d, LAMBDA e : e.user # u)

\* list(d.keys())
Keys(d) == [i \in DOMAIN d |-> d[i].user]

KeySet(d) == {d[i].user : i \in DOMAIN d}

Room ==
    [clients |-> clients, results |-> results,
     start_time |-> start_time, last_ranking |-> last_ranking]

NoMsg == [type |-> "none"]

\* a step that sends nothing
Nothing == [msg |-> NoMsg, to |-> {}, ok |-> {}]

\* The record of a step: the type of the message handler `by` received ("none"
\* when the step handles no message), the message sent, the channels it was
\* sent to and those it reached.
Step(recv, by, s) == [recv |-> recv, by |-> by, msg |-> s.msg, to |-> s.to, ok |-> s.ok]

\* ------------------------------------------------------------- validation
RECURSIVE CountFrom(_, _, _, _, _)
CountFrom(ts, off, start, end, i) ==
    IF i > Len(ts) THEN 0
    ELSE (IF ts[i] + off >= start /\ ts[i] + off <= end THEN 1 ELSE 0)
         + CountFrom(ts, off, start, end, i + 1)

CountValidEndExclusive(ts, off, start, end) == CountFrom(ts, off, start, end - 1, 1)

\* lines 102-108
CountValid(ts, off, start, end) == CountFrom(ts, off, start, end, 1)

\* ---------------------------------------------------------------- ranking
Zero(u) == [user |-> u, reported |-> 0, validated |-> 0, offset |-> 0]

RECURSIVE SynthFrom(_, _, _)
SynthFrom(res, cl, i) ==
    IF i > Len(cl) THEN res
    ELSE SynthFrom(IF Has(res, cl[i].user) THEN res ELSE Append(res, Zero(cl[i].user)),
                   cl, i + 1)

SynthesizeNone(res, cl) == res

\* lines 139-141
Synthesize(res, cl) == SynthFrom(res, cl, 1)

KeyBeforeValidatedOnly(a, b) == (0 - a.validated) < (0 - b.validated)

\* line 145: key(a) < key(b) for key = (-validated, -reported)
KeyBefore(a, b) ==
    \/ (0 - a.validated) < (0 - b.validated)
    \/ /\ (0 - a.validated) = (0 - b.validated)
       /\ (0 - a.reported) < (0 - b.reported)

\* x goes after every element whose key is not greater than its own (stable)
Insert(acc, x) ==
    LET pos == Cardinality({j \in DOMAIN acc : ~KeyBefore(x, acc[j])})
    IN  SubSeq(acc, 1, pos) \o <<x>> \o SubSeq(acc, pos + 1, Len(acc))

RECURSIVE SortFrom(_, _, _)
SortFrom(acc, xs, i) ==
    IF i > Len(xs) THEN acc ELSE SortFrom(Insert(acc, xs[i]), xs, i + 1)

\* lines 143-146
Ranking(res) ==
    SortFrom(<<>>,
             [i \in DOMAIN res |->
                 [user |-> res[i].user, validated |-> res[i].validated,
                  reported |-> res[i].reported]],
             1)

\* -------------------------------------------------------------- broadcast
\* line 31: list(room["clients"].values())
Snapshot(r) == [i \in DOMAIN r.clients |-> r.clients[i].ws]

ClearRoundKeepResults(r) == [r EXCEPT !.start_time = None]

\* lines 150-151
ClearRound(r) == [r EXCEPT !.start_time = None, !.results = <<>>]

\* The outcome of a task's run up to its next suspension point: the room, the
\* task's new position, and the deadline of the timer task it created, if any.
Idle(r, pc) ==
    [room |-> r, pc |-> pc, todo |-> <<>>, msg |-> NoMsg, timestamps |-> <<>>,
     client_offset |-> 0, seen |-> None, spawn |-> None]

Sending(r, pc, todo, msg) == [Idle(r, pc) EXCEPT !.todo = todo, !.msg = msg]

\* finalize_round from its call to its first suspension
\* (lines 133-149, and 150-151 when nobody is there to send to).
FinalizeRound(r, after) ==
    LET res1    == Synthesize(r.results, r.clients)
        ranking == Ranking(res1)
        r1      == [r EXCEPT !.results = res1, !.last_ranking = ranking]
        todo    == Snapshot(r1)
    IN  IF todo = <<>>
        THEN Idle(ClearRound(r1), after)
        ELSE [Sending(r1, "round_end", todo, [type |-> "round_end", ranking |-> ranking])
                 EXCEPT !.seen = r.start_time]

\* line 114
AllSubmitted(r) == Len(r.results) = Len(r.clients)

\* The handler's code after a broadcast has returned.
Continue(pc, r, msg) ==
    CASE pc = "join"      -> Idle(r, "recv")
      [] pc = "start"     -> [Idle(r, "recv") EXCEPT
                                 !.spawn = msg.start_time + msg.duration + Buffer]
      [] pc = "partial"   -> IF AllSubmitted(r) THEN FinalizeRound(r, "recv")
                             ELSE Idle(r, "recv")
      [] pc = "round_end" -> Idle(ClearRound(r), "recv")
      [] pc = "leave"     -> Idle(r, "closed")

\* broadcast(room_id, msg) from its call to its first suspension.
Begin(pc, r, msg) ==
    IF Snapshot(r) = <<>> THEN Continue(pc, r, msg)
    ELSE Sending(r, pc, Snapshot(r), msg)

\* ------------------------------------------------------------------ tasks
NewConn ==
    [user |-> "none", pc |-> "new", todo |-> <<>>, msg |-> NoMsg,
     timestamps |-> <<>>, client_offset |-> 0, seen |-> None]

NoTimer == [pc |-> "none", when |-> 0, todo |-> <<>>, msg |-> NoMsg, seen |-> None]

DoneTimer == [NoTimer EXCEPT !.pc = "done"]

FreeSlot ==
    CHOOSE i \in Slots : timers[i].pc = "none" /\ \A j \in 1..(i - 1) : timers[j].pc # "none"

\* request_starts handled so far
StartsSoFar ==
    Cardinality({i \in Slots : timers[i].pc # "none"})
    + Cardinality({w \in Conns : conn[w].pc = "start"})

\* lines 35-36: a send reaches a channel whose handler is still serving it
Usable(w) == conn[w].pc \notin {"new", "closed", "crashed"}

DeliveredUntilFailure(todo) ==
    {todo[i] : i \in {j \in DOMAIN todo : \A k \in 1..j : Usable(todo[k])}}

\* those of the snapshot the sends reach
Delivered(todo) == {to \in {todo[i] : i \in DOMAIN todo} : Usable(to)}

Broadcast(t) == [msg |-> t.msg, to |-> {t.todo[i] : i \in DOMAIN t.todo}, ok |-> Delivered(t.todo)]

Reply(w, msg) == [msg |-> msg, to |-> {w}, ok |-> {w}]

SetRoom(r) ==
    /\ clients' = r.clients
    /\ results' = r.results
    /\ start_time' = r.start_time
    /\ last_ranking' = r.last_ranking

\* line 88: asyncio.create_task(end_round_after(room_id, when))
Spawn(when) ==
    IF when = None THEN timers
    ELSE [timers EXCEPT ![FreeSlot] = [NoTimer EXCEPT !.pc = "sleep", !.when = when]]

\* Handler task w has run to its next suspension point with outcome o.
ConnStep(w, u, o, recv, s) ==
    /\ SetRoom(o.room)
    /\ conn' = [conn EXCEPT ![w] =
                   [user |-> u, pc |-> o.pc, todo |-> o.todo, msg |-> o.msg,
                    timestamps |-> o.timestamps, client_offset |-> o.client_offset,
                    seen |-> o.seen]]
    /\ timers' = Spawn(o.spawn)
    /\ finCount' = IF recv = "request_start" THEN 0
                   ELSE IF o.pc = "round_end" THEN finCount + 1 ELSE finCount
    /\ last' = Step(recv, IF recv = "none" THEN 0 ELSE w, s)
    /\ members' = IF recv = "request_start" THEN KeySet(o.room.clients)
                  ELSE members \cup KeySet(o.room.clients)
    /\ accepted' = IF recv = "request_start" \/ o.pc = "round_end" THEN <<>>
                   ELSE IF recv = "result" /\ start_time # None
                        THEN Put(accepted, Get(o.room.results, u))
                   ELSE IF o.pc \in {"leave", "closed", "crashed"} THEN Pop(accepted, u)
                   ELSE accepted
    /\ UNCHANGED clock

\* ---------------------------------------------------------------- actions
Init ==
    /\ clients = <<>>
    /\ results = <<>>
    /\ start_time = None
    /\ last_ranking = <<>>
    /\ conn = [w \in Conns |-> NewConn]
    /\ timers = [i \in Slots |-> NoTimer]
    /\ clock = 0
    /\ finCount = 0
    /\ last = Step("none", 0, Nothing)
    /\ members = {}
    /\ accepted = <<>>

\* Connections and usernames are interchangeable: connections open in the
\* order of their numbers, and a username not seen before is the next of Names.
KnownUsers == {conn[w].user : w \in {v \in Conns : conn[v].pc # "new"}}

FreshOrKnown(u) ==
    \E k \in DOMAIN Names :
        /\ u = Names[k]
        /\ \A j \in 1..(k - 1) : Names[j] \in KnownUsers

\* lines 50-57: accept, register, start the presence broadcast
Connect(w, u) ==
    /\ conn[w].pc = "new"
    /\ \A v \in 1..(w - 1) : conn[v].pc # "new"
    /\ FreshOrKnown(u)
    /\ LET r1 == [Room EXCEPT !.clients = Put(clients, [user |-> u, ws |-> w])]
       IN  ConnStep(w, u, Begin("join", r1, [type |-> "presence", users |-> Keys(r1.clients)]),
                    "none", Nothing)

\* lines 64-76 and 117: timesync, join, unrecognised type
Query(w, typ) ==
    /\ conn[w].pc = "recv"
    /\ last' = Step(typ, w, CASE typ = "timesync" -> Reply(w, [type |-> "timesync_resp"])
                               [] typ = "join"     -> Reply(w, [type |-> "room_info"])
                               [] OTHER            -> Nothing)
    /\ UNCHANGED <<room_vars, conn, timers, clock, finCount, members, accepted>>

RequestStartNoLead(w) ==
    /\ conn[w].pc = "recv"
    /\ StartsSoFar < MaxStarts
    /\ LET r1 == [Room EXCEPT !.start_time = clock, !.results = <<>>]
       IN  ConnStep(w, conn[w].user,
                    Begin("start", r1,
                          [type |-> "start", start_time |-> clock, duration |-> Duration]),
                    "request_start", Nothing)

RequestStartKeepResults(w) ==
    /\ conn[w].pc = "recv"
    /\ StartsSoFar < MaxStarts
    /\ LET st == clock + Lead
           r1 == [Room EXCEPT !.start_time = st]
       IN  ConnStep(w, conn[w].user,
                    Begin("start", r1,
                          [type |-> "start", start_time |-> st, duration |-> Duration]),
                    "request_start", Nothing)

\* lines 78-88
RequestStart(w) ==
    /\ conn[w].pc = "recv"
    /\ StartsSoFar < MaxStarts
    /\ LET st == clock + Lead
           r1 == [Room EXCEPT !.start_time = st, !.results = <<>>]
       IN  ConnStep(w, conn[w].user,
                    Begin("start", r1,
                          [type |-> "start", start_time |-> st, duration |-> Duration]),
                    "request_start", Nothing)

RejectResultToAll(r, w) ==
    [out   |-> Idle(r, "recv"),
     reply |-> [msg |-> [type |-> "error", reason |-> "no active round"],
                to  |-> {r.clients[i].ws : i \in DOMAIN r.clients} \cup {w},
                ok  |-> {r.clients[i].ws : i \in DOMAIN r.clients} \cup {w}]]

\* lines 94-96
RejectResult(r, w) ==
    [out   |-> Idle(r, "recv"),
     reply |-> Reply(w, [type |-> "error", reason |-> "no active round"])]

\* lines 98-112
AcceptResult(r, u, cnt, off, ts) ==
    LET valid == CountValid(ts, off, r.start_time, r.start_time + Duration)
        r1    == [r EXCEPT !.results =
                     Put(r.results, [user |-> u, reported |-> cnt,
                                     validated |-> valid, offset |-> off])]
        o     == Begin("partial", r1,
                       [type |-> "partial_result", user |-> u, validated |-> valid])
    IN  IF o.pc = "partial"
        THEN [o EXCEPT !.timestamps = ts, !.client_offset = off]
        ELSE o

StampLists ==
    UNION {[1..n -> RelStamps] : n \in 0..MaxStamps}

\* lines 90-115: a well-formed result message; its timestamps are local times
\* that the offset maps next to the bounds of the round's window
Result(w, cnt, off, rel) ==
    /\ conn[w].pc = "recv"
    /\ IF start_time = None
       THEN LET rj == RejectResult(Room, w)
            IN  ConnStep(w, conn[w].user, rj.out, "result", rj.reply)
       ELSE LET ts == [i \in DOMAIN rel |-> start_time + rel[i] - off]
            IN  ConnStep(w, conn[w].user, AcceptResult(Room, conn[w].user, cnt, off, ts),
                         "result", Nothing)

\* lines 61, 98-106: json.loads, int() or float() raises; the exception is not a
\* WebSocketDisconnect, so the handler ends with its channel still registered.
\* A result message is only parsed when a round is active (line 94 comes first).
Malformed(w, isResult) ==
    /\ conn[w].pc = "recv"
    /\ IF isResult /\ start_time = None
       THEN LET rj == RejectResult(Room, w)
            IN  ConnStep(w, conn[w].user, rj.out, "result", rj.reply)
       ELSE ConnStep(w, conn[w].user, Idle(Room, "crashed"), "malformed", Nothing)

\* lines 118-122
Disconnect(w) ==
    /\ conn[w].pc = "recv"
    /\ LET u  == conn[w].user
           r1 == [Room EXCEPT !.clients = Pop(clients, u), !.results = Pop(results, u)]
       IN  ConnStep(w, u, Begin("leave", r1, [type |-> "presence", users |-> Keys(r1.clients)]),
                    "none", Nothing)

\* lines 33-38: the sends of handler w's broadcast, and the code that follows it
ConnSend(w) ==
    /\ conn[w].todo # <<>>
    /\ ConnStep(w, conn[w].user, Continue(conn[w].pc, Room, conn[w].msg), "none",
                Broadcast(conn[w]))

TimerFireSkips(i) ==
    /\ timers[i].pc = "sleep"
    /\ clock >= timers[i].when
    /\ timers' = [timers EXCEPT ![i] = DoneTimer]
    /\ last' = Step("none", 0, Nothing)
    /\ UNCHANGED <<room_vars, conn, clock, finCount, members, accepted>>

\* lines 127-129: the sleep is over and finalize_round is called
TimerFire(i) ==
    /\ timers[i].pc = "sleep"
    /\ clock >= timers[i].when
    /\ LET o == FinalizeRound(Room, "done")
       IN  /\ SetRoom(o.room)
           /\ timers' = [timers EXCEPT ![i] =
                            IF o.pc = "done" THEN DoneTimer
                            ELSE [@ EXCEPT !.pc = o.pc, !.todo = o.todo,
                                           !.msg = o.msg, !.seen = o.seen]]
           /\ finCount' = IF o.pc = "round_end" THEN finCount + 1 ELSE finCount
           /\ accepted' = IF o.pc = "round_end" THEN <<>> ELSE accepted
    /\ last' = Step("none", 0, Nothing)
    /\ UNCHANGED <<conn, clock, members>>

\* lines 33-38 and 150-151 in a timer task
TimerSend(i) ==
    /\ timers[i].pc = "round_end"
    /\ SetRoom(ClearRound(Room))
    /\ timers' = [timers EXCEPT ![i] = DoneTimer]
    /\ last' = Step("none", 0, Broadcast(timers[i]))
    /\ UNCHANGED <<conn, clock, finCount, members, accepted>>

\* line 23: time passes
Tick ==
    /\ clock + TickStep <= MaxTime
    /\ clock' = clock + TickStep
    /\ last' = Step("none", 0, Nothing)
    /\ UNCHANGED <<room_vars, conn, timers, finCount, members, accepted>>

Users == {Names[k] : k \in DOMAIN Names}

\* Result messages of the many-connection environments: one timestamp inside
\* the round's window or one outside it, under a non-zero offset.
FewStamps == {<<0>>, <<Duration + 1>>}
FewOffsets == Offsets \ {0}

\* The full environment: every kind of message, connection loss and the clock,
\* over MainConns connections and MainStarts rounds.
Next ==
    \/ \E w \in MainConns, u \in Users : Connect(w, u)
    \/ \E w \in MainConns, typ \in QueryTypes : Query(w, typ)
    \/ \E w \in MainConns : StartsSoFar < MainStarts /\ RequestStart(w)
    \/ \E w \in MainConns, cnt \in Counts, off \in FewOffsets, rel \in FewStamps :
           Result(w, cnt, off, rel)
    \/ \E w \in MainConns, isResult \in BOOLEAN : Malformed(w, isResult)
    \/ \E w \in MainConns : Disconnect(w)
    \/ \E w \in MainConns : ConnSend(w)
    \/ \E i \in Slots : TimerFire(i)
    \/ \E i \in Slots : TimerSend(i)
    \/ Tick

Spec == Init /\ [][Next]_vars

\* A user who connects twice and a second user: every connection, one round,
\* well-formed messages, no timer firing.
NextThree ==
    \/ \E w \in Conns : Connect(w, IF w = MaxConns THEN Names[2] ELSE Names[1])
    \/ \E w \in Conns : StartsSoFar < MainStarts /\ RequestStart(w)
    \/ \E w \in Conns, cnt \in Counts, off \in FewOffsets, rel \in FewStamps :
           Result(w, cnt, off, rel)
    \/ \E w \in Conns : Disconnect(w)
    \/ \E w \in Conns : ConnSend(w)

SpecThree == Init /\ [][NextThree]_vars

\* One connection, every round, every result message of the input sets.
NextSolo ==
    \/ Connect(1, Names[1])
    \/ RequestStart(1)
    \/ \E cnt \in Counts, off \in Offsets, rel \in StampLists : Result(1, cnt, off, rel)
    \/ Disconnect(1)
    \/ ConnSend(1)
    \/ \E i \in Slots : TimerFire(i)
    \/ \E i \in Slots : TimerSend(i)
    \/ Tick

SpecSolo == Init /\ [][NextSolo]_vars

\* The clock of the fair environment runs until every timer it lets start is due.
Horizon == MaxTime + TickStep

TickLive ==
    /\ clock < Horizon
    /\ clock' = clock + TickStep
    /\ last' = Step("none", 0, Nothing)
    /\ UNCHANGED <<room_vars, conn, timers, finCount, members, accepted>>

\* One connection under a fair scheduler: a broadcast's sends return, a timer
\* whose sleep is over runs, time passes.  request_start is taken only while
\* the round's deadline lies within the horizon.
NextLive ==
    \/ Connect(1, Names[1])
    \/ clock + Lead + Duration + Buffer <= Horizon /\ RequestStart(1)
    \/ \E cnt \in Counts, off \in FewOffsets, rel \in FewStamps : Result(1, cnt, off, rel)
    \/ Disconnect(1)
    \/ ConnSend(1)
    \/ \E i \in Slots : TimerFire(i)
    \/ \E i \in Slots : TimerSend(i)
    \/ TickLive

SpecLive ==
    /\ Init /\ [][NextLive]_vars
    /\ WF_vars(ConnSend(1))
    /\ \A i \in Slots : WF_vars(TimerFire(i)) /\ WF_vars(TimerSend(i))
    /\ WF_vars(TickLive)

\* ----------------------------------------------------------------- claims
Tasks == {conn[w] : w \in Conns} \cup {timers[i] : i \in Slots}

\* some task is inside finalize_round, suspended in its round_end broadcast
Finalizing == \E t \in Tasks : t.pc = "round_end"

\* every connected member has its own entry in results
AllHaveEntry == \A u \in KeySet(clients) : Has(results, u)

Deadline == start_time + Duration + Buffer

Sorted(rk) ==
    \A i \in 1..(Len(rk) - 1) :
        \/ rk[i].validated > rk[i + 1].validated
        \/ rk[i].validated = rk[i + 1].validated /\ rk[i].reported >= rk[i + 1].reported

\* C1: a round started by request_start gets at most one round_end broadcast;
\* a second trigger of finalize_round for the same round broadcasts nothing.
C1_OneRoundEndPerRound == finCount <= 1

\* C2: while no finalization is under way, results has at most as many entries
\* as clients has members.
C2_ResultsWithinMembers == ~Finalizing => Len(results) <= Len(clients)

\* C3: when finalize_round resumes after its round_end broadcast, its reset
\* undoes no request_start and drops no result handled in the meantime: the
\* round it clears is the one it ranked, and every entry it discards is in
\* the ranking it broadcast.
C3_KeptByReset(t) ==
    /\ start_time \in {None, t.seen}
    /\ \A i \in DOMAIN results :
           \E j \in DOMAIN t.msg.ranking :
               /\ t.msg.ranking[j].user = results[i].user
               /\ t.msg.ranking[j].validated = results[i].validated
               /\ t.msg.ranking[j].reported = results[i].reported

C3_ResetLosesNothing ==
    [][/\ \A w \in Conns :
              conn[w].pc = "round_end" /\ conn'[w].pc # "round_end"
                  => C3_KeptByReset(conn[w])
       /\ \A i \in Slots :
              timers[i].pc = "round_end" /\ timers'[i].pc # "round_end"
                  => C3_KeptByReset(timers[i])]_vars

\* C4: a timer that fires after its round was finalized or overwritten by a
\* later request_start broadcasts nothing and changes no room state.
C4_Stale(when) == start_time = None \/ Deadline # when

C4_StaleTimerHarmless ==
    [][\A i \in Slots :
           timers[i].pc = "sleep" /\ timers'[i].pc # "sleep" /\ C4_Stale(timers[i].when)
               => timers'[i].pc = "done" /\ UNCHANGED room_vars]_vars

\* C5: when a handler reaches line 114 after a submission, the round is still
\* active and every connected member has an entry in results, it finalizes:
\* it does not go back to receiving with the round left active.
C5_EarlyFinalization ==
    [][\A w \in Conns :
           /\ conn[w].pc = "partial" /\ conn'[w].pc = "recv"
           /\ start_time' # None /\ clients' # <<>>
           => \E u \in KeySet(clients') : ~Has(results', u)]_vars

\* C6: finalize_round starts on an active round only when every connected
\* member has an entry in results or the round's deadline has passed.
C6_Starts ==
    \/ \E w \in Conns : conn[w].pc # "round_end" /\ conn'[w].pc = "round_end"
    \/ \E i \in Slots : timers[i].pc # "round_end" /\ timers'[i].pc = "round_end"

C6_FinalizeOnlyWhenDue ==
    [][C6_Starts /\ start_time # None => AllHaveEntry \/ clock >= Deadline]_vars

\* C7: a result message handled while start_time is None is answered with
\* the error "no active round" to its sender alone; nothing is broadcast, no
\* finalization starts and the room is unchanged.
C7_RejectedWithoutEffect ==
    [][last'.recv = "result" /\ start_time = None =>
           /\ last'.msg = [type |-> "error", reason |-> "no active round"]
           /\ last'.to = {last'.by}
           /\ conn'[last'.by].pc = "recv" /\ conn'[last'.by].todo = <<>>
           /\ UNCHANGED <<room_vars, timers, finCount>>]_vars

C7_Witness ==
    /\ last.recv = "result" /\ last.msg.type = "error"
    /\ Len(clients) = 2 /\ last_ranking # <<>>

\* C8: the validated count stored for an accepted submission is the number of
\* its timestamps t with start_time <= t + offset <= start_time + duration.
C8_InWindow(w) ==
    {i \in DOMAIN conn[w].timestamps :
        /\ start_time <= conn[w].timestamps[i] + conn[w].client_offset
        /\ conn[w].timestamps[i] + conn[w].client_offset <= start_time + Duration}

C8_ValidatedCount ==
    [][\A w \in Conns :
           conn[w].pc = "recv" /\ conn'[w].pc = "partial"
               => Get(results', conn[w].user).validated = Cardinality(C8_InWindow(w))']_vars

C8_Witness ==
    \E w \in Conns :
        /\ conn[w].pc = "partial" /\ conn[w].client_offset # 0
        /\ start_time # None
        /\ Len(conn[w].timestamps) = 2
        /\ conn[w].timestamps[1] + conn[w].client_offset = start_time + Duration
        /\ conn[w].timestamps[2] + conn[w].client_offset = start_time + Duration + 1
        /\ Has(results, conn[w].user)
        /\ Get(results, conn[w].user).validated = 1

\* C9: every ranking that is broadcast or stored is ordered by validated
\* descending, then reported descending.
C9_RankingSorted ==
    /\ Sorted(last_ranking)
    /\ \A t \in Tasks : t.pc = "round_end" => Sorted(t.msg.ranking)

C9_Witness ==
    \E t \in Tasks :
        /\ t.pc = "round_end" /\ Len(t.msg.ranking) = 2 /\ Len(results) = 2
        /\ t.msg.ranking[1].validated = t.msg.ranking[2].validated
        /\ t.msg.ranking[1].reported > t.msg.ranking[2].reported
        /\ results[1].user = t.msg.ranking[2].user

\* C10: the ranking finalize_round broadcasts lists every connected member
\* exactly once; a member without a result entry gets reported 0 and
\* validated 0, after every entry with a positive validated count.
C10_Listed(rk) ==
    \A u \in KeySet(clients) :
        /\ Cardinality({j \in DOMAIN rk : rk[j].user = u}) = 1
        /\ ~Has(results, u) =>
               \A j \in DOMAIN rk :
                   rk[j].user = u =>
                       /\ rk[j].reported = 0 /\ rk[j].validated = 0
                       /\ \A k \in DOMAIN rk : rk[k].validated > 0 => k < j

C10_EveryMemberRanked ==
    [][/\ \A w \in Conns :
              conn[w].pc # "round_end" /\ conn'[w].pc = "round_end"
                  => C10_Listed(conn'[w].msg.ranking)
       /\ \A i \in Slots :
              timers[i].pc # "round_end" /\ timers'[i].pc = "round_end"
                  => C10_Listed(timers'[i].msg.ranking)]_vars

C10_Witness ==
    \E i \in Slots :
        /\ timers[i].pc = "round_end" /\ Len(timers[i].msg.ranking) = 2
        /\ timers[i].msg.ranking[1].validated > 0
        /\ \E k \in DOMAIN results : results[k] = Zero(timers[i].msg.ranking[2].user)
        /\ Len(clients) = 2

\* C11: when a handler is told its channel disconnected, in or out of a
\* round, its username leaves clients and results, every other entry of both
\* stays, start_time is unchanged, and the presence message it broadcasts lists
\* the remaining usernames and goes to the remaining members.
C11_Others(d, u) == SelectSeq(d, LAMBDA e : e.user # u)

C11_LeaveRuns ==
    [][\A w \in Conns :
           conn[w].pc = "recv" /\ conn'[w].pc \in {"leave", "closed"} =>
               /\ ~Has(clients', conn[w].user) /\ ~Has(results', conn[w].user)
               /\ clients' = C11_Others(clients, conn[w].user)
               /\ results' = C11_Others(results, conn[w].user)
               /\ start_time' = start_time
               /\ IF clients' = <<>> THEN conn'[w].pc = "closed"
                  ELSE /\ conn'[w].pc = "leave"
                       /\ conn'[w].msg = [type |-> "presence", users |-> Keys(clients')]
                       /\ conn'[w].todo = Snapshot([clients |-> clients'])]_vars

C11_Witness ==
    \E w \in Conns :
        /\ conn[w].pc = "leave" /\ start_time # None
        /\ ~Has(clients, conn[w].user) /\ Len(clients) = 1
        /\ conn[w].msg.users = Keys(clients)
        /\ Len(results) = 1 /\ last.recv = "none"

\* C12 as stated: in every step, if start_time was not None before and is not
\* None after, the two values are equal.
C12_StartTimeStable ==
    [][start_time # None /\ start_time' # None => start_time' = start_time]_vars

\* C12: the start_time of an active round changes to another value only when
\* a request_start is handled, which sets it to now + 5; no other step changes
\* it except to None.
C12_OnlyRequestStartOverwrites ==
    [][start_time # None /\ start_time' # None /\ start_time' # start_time =>
           last'.recv = "request_start" /\ start_time' = clock + Lead]_vars

C12_Witness ==
    /\ last.recv = "request_start" /\ clock > 0 /\ start_time = clock + Lead
    /\ last_ranking = <<>>
    /\ \E i \in Slots : timers[i].pc = "sleep" /\ timers[i].when < Deadline

\* C13: a malformed message is rejected on its own: the handler that received
\* it goes on receiving, the room is unchanged, and no member stays registered
\* whose handler has stopped.
C13_MalformedRejected ==
    [][last'.recv = "malformed" =>
           /\ conn'[last'.by].pc = "recv"
           /\ UNCHANGED room_vars
           /\ \A i \in DOMAIN clients' : conn'[clients'[i].ws].pc # "crashed"]_vars

\* C14: the sends of a broadcast go to every channel of the snapshot taken at
\* its start; the channels that cannot be sent to are skipped without stopping
\* the others, and the caller goes on: the joining handler receives, the
\* request_start handler creates its timer, the submitting handler receives or
\* finalizes, finalize_round resets the round, the leaving handler ends.
C14_Sent(t) ==
    /\ last'.msg = t.msg
    /\ last'.to = {t.todo[k] : k \in DOMAIN t.todo}
    /\ last'.ok = {x \in last'.to : conn[x].pc \notin {"new", "closed", "crashed"}}

C14_Resumed(w) ==
    CASE conn[w].pc = "join"      -> conn'[w].pc = "recv"
      [] conn[w].pc = "start"     -> /\ conn'[w].pc = "recv"
                                     /\ \E i \in Slots :
                                            /\ timers[i].pc = "none" /\ timers'[i].pc = "sleep"
                                            /\ timers'[i].when = conn[w].msg.start_time + Duration + Buffer
      [] conn[w].pc = "partial"   -> conn'[w].pc \in {"recv", "round_end"}
      [] conn[w].pc = "round_end" -> conn'[w].pc = "recv" /\ start_time' = None /\ results' = <<>>
      [] conn[w].pc = "leave"     -> conn'[w].pc = "closed"

C14_BroadcastBestEffort ==
    [][/\ \A w \in Conns :
              conn[w].todo # <<>> /\ conn'[w] # conn[w] => C14_Sent(conn[w]) /\ C14_Resumed(w)
       /\ \A i \in Slots :
              timers[i].pc = "round_end" /\ timers'[i] # timers[i] =>
                  /\ C14_Sent(timers[i])
                  /\ timers'[i].pc = "done" /\ start_time' = None /\ results' = <<>>]_vars

C14_Witness ==
    /\ last.msg.type = "start" /\ last.to = {1, 2} /\ last.ok = {2}
    /\ clients[1].ws = 1 /\ conn[1].pc = "crashed"
    /\ \E i \in Slots : timers[i].pc = "sleep"

\* C15: handling request_start sets start_time to now + 5, empties results and
\* starts a broadcast of the start message, carrying that start_time and the
\* duration 15, to the channel of every member then in clients; a round that
\* was active is overwritten the same way.
C15_RequestStartEffect ==
    [][last'.recv = "request_start" =>
           /\ start_time' = clock + Lead
           /\ results' = <<>>
           /\ clients' = clients /\ last_ranking' = last_ranking
           /\ IF clients = <<>>
              THEN conn'[last'.by].pc = "recv"
              ELSE /\ conn'[last'.by].pc = "start"
                   /\ conn'[last'.by].msg =
                          [type |-> "start", start_time |-> clock + 5, duration |-> 15]
                   /\ conn'[last'.by].todo = [i \in DOMAIN clients |-> clients[i].ws]]_vars

C15_Witness ==
    /\ last.recv = "request_start" /\ clock > 0 /\ results = <<>>
    /\ conn[last.by].pc = "start" /\ conn[last.by].msg.start_time = start_time
    /\ last_ranking = <<>>
    /\ \E i \in Slots : timers[i].pc = "sleep" /\ timers[i].when = Lead + Duration + Buffer
    /\ Deadline > Lead + Duration + Buffer

\* C16: when a finalize_round call that found a round active returns,
\* start_time is None and results is empty; start_time then stays None until a
\* request_start is handled, so results that arrive first are rejected.
C16_Cleared == start_time' = None /\ results' = <<>>

C16_ResetAfterFinalize ==
    [][/\ \A w \in Conns :
              /\ conn[w].pc = "round_end" /\ conn'[w].pc # "round_end" /\ conn[w].seen # None
                     => C16_Cleared
              /\ conn[w].pc = "partial" /\ conn'[w].pc = "recv" /\ start_time # None
                 /\ Len(results) = Len(clients)
                     => C16_Cleared
       /\ \A i \in Slots :
              /\ timers[i].pc = "round_end" /\ timers'[i].pc = "done" /\ timers[i].seen # None
                     => C16_Cleared
              /\ timers[i].pc = "sleep" /\ timers'[i].pc = "done" /\ start_time # None
                     => C16_Cleared
       /\ start_time = None /\ start_time' # None => last'.recv = "request_start"]_vars

C16_Witness ==
    /\ last.msg.type = "round_end" /\ start_time = None /\ results = <<>>
    /\ \E j \in DOMAIN last.msg.ranking : last.msg.ranking[j].validated > 0
    /\ last.ok # {}

\* C17: every username with an entry in results was in clients at some time
\* since the request_start of the current round.
C17_ResultsOfRoundMembers == \A i \in DOMAIN results : results[i].user \in members

\* C18: under a fair scheduler every round that request_start begins is closed
\* again (start_time returns to None) and every timer that was created runs
\* finalize_round to its end, whether or not anyone submits.
C18_RoundEventuallyFinalized ==
    /\ (start_time # None) ~> (start_time = None)
    /\ \A i \in Slots : (timers[i].pc = "sleep") ~> (timers[i].pc = "done")

C18_Witness ==
    /\ last.msg.type = "round_end" /\ last.ok # {} /\ start_time = None
    /\ \A j \in DOMAIN last.msg.ranking :
           last.msg.ranking[j].validated = 0 /\ last.msg.ranking[j].reported = 0
    /\ finCount = 1 /\ clock >= Lead + Duration + Buffer
    /\ \E i \in Slots : timers[i].pc = "done"

\* C19: while the newest channel of a username is connected, the disconnect of
\* an older channel of that username leaves clients and results as they are,
\* so the username stays in clients, mapped to the newest channel.
C19_Connected(v) == conn[v].pc \in {"join", "recv", "start", "partial", "round_end"}

C19_Superseded(w) ==
    \E v \in Conns : v > w /\ conn[v].user = conn[w].user /\ C19_Connected(v)

C19_ReconnectSafe ==
    [][\A w \in Conns :
           /\ conn[w].pc = "recv" /\ conn'[w].pc \in {"leave", "closed"}
           /\ C19_Superseded(w)
           => /\ clients' = clients /\ results' = results
              /\ Has(clients', conn[w].user)]_vars

\* C20: when finalize_round begins a round_end broadcast, its ranking holds,
\* with the stored validated and reported counts, every result accepted since
\* the last request_start and the last round_end whose submitter is still
\* connected.
C20_Ranked(rk) ==
    \A k \in DOMAIN accepted :
        \E j \in DOMAIN rk :
            /\ rk[j].user = accepted[k].user
            /\ rk[j].validated = accepted[k].validated
            /\ rk[j].reported = accepted[k].reported

C20_NoAcceptedResultLost ==
    [][/\ \A w \in Conns :
              conn[w].pc # "round_end" /\ conn'[w].pc = "round_end"
                  => C20_Ranked(conn'[w].msg.ranking)
       /\ \A i \in Slots :
              timers[i].pc # "round_end" /\ timers'[i].pc = "round_end"
                  => C20_Ranked(timers'[i].msg.ranking)]_vars

====
